---- MODULE Spec2Model ----
(***************************************************************************)
(* A model of the Azure File directory-listing pager                       *)
(* (core/src/services/azfile/pager.rs): the AzfilePager cursor, its        *)
(* `next` operation with its three suspension points, the XML schema of    *)
(* the enumeration payload, and the mapping of records to entries.         *)
(***************************************************************************)
EXTENDS Integers, Sequences, FiniteSets, TLC

\* ------------------------------------------------------------------ bounds
MaxFiles == 2
MaxDirs == 1
MaxRequests == 3

\* ------------------------------------------------------- program constants
StatusOK == 200
StatusNotFound == 404

\* --------------------------------------------------------- Option, Result
None == <<>>
Some(v) == <<v>>
unwrap_or(o, d) == IF o = None THEN d ELSE o[1]

Ok(v) == [ok |-> TRUE, val |-> v]
Err(e) == [ok |-> FALSE, err |-> e]

SeqsUpTo(S, n) == UNION {[1..k -> S] : k \in 0..n}

\* ------------------------------------------------ the wire format (inputs)
\* Strings that are cut or joined are sequences of characters.
GoodDate1 == "Mon, 25 Sep 2023 12:43:08 GMT"
GoodDate2 == "Sun, 15 Oct 2023 12:03:40 GMT"
BadDate == "2023-09-25T12:43:05.8483527Z"

Elem(name, len, lm, etag) ==
    [Name |-> Some(name), FileId |-> Some("id"),
     Properties |-> [ContentLength |-> len, LastModified |-> Some(lm), Etag |-> etag]]

FileElems ==
    { Elem(<<"a">>, Some(5), GoodDate1, Some("e1")),
      Elem(<<"b">>, None, GoodDate2, Some("e2")),
      Elem(<<"c">>, Some(7), BadDate, Some("e3")) }

DirElems ==
    { Elem(<<"s">>, None, GoodDate2, Some("e4")),
      Elem(<<"u">>, Some(9), GoodDate1, Some("e6")),
      Elem(<<"t">>, None, BadDate, Some("e5")) }

Tokens == {"", "m1", "m2"}
NextMarkerElems == {None} \cup {Some(t) : t \in Tokens}

\* Well-formed documents with every required field present.
CompleteDocs ==
    { [wellformed |-> TRUE,
       Entries |-> Some([File |-> f, Directory |-> d]),
       NextMarker |-> m] :
         f \in SeqsUpTo(FileElems, MaxFiles),
         d \in SeqsUpTo(DirElems, MaxDirs),
         m \in NextMarkerElems }

\* Documents that are not well-formed XML or lack a required field.
BrokenDocs ==
    { [wellformed |-> FALSE, Entries |-> None, NextMarker |-> None],
      [wellformed |-> TRUE, Entries |-> None, NextMarker |-> Some("")],
      [wellformed |-> TRUE,
       Entries |-> Some([File |-> <<Elem(<<"a">>, Some(5), GoodDate1, None)>>,
                         Directory |-> <<>>]),
       NextMarker |-> Some("m1")] }

Docs == CompleteDocs \cup BrokenDocs

NoDoc == [wellformed |-> FALSE, Entries |-> None, NextMarker |-> None]

\* What reading the body of a 200 response can give.
Bodies ==
    { [kind |-> "io_error", utf8 |-> FALSE, doc |-> NoDoc],
      [kind |-> "bytes", utf8 |-> FALSE, doc |-> NoDoc] }
    \cup { [kind |-> "bytes", utf8 |-> TRUE, doc |-> d] : d \in Docs }

NoBody == [kind |-> "none", utf8 |-> FALSE, doc |-> NoDoc]

Statuses == {StatusOK, StatusNotFound, 403, 500}

\* What awaiting the issuer can give: a failure of the call or a response.
ListOutcomes ==
    { [kind |-> "fail", status |-> 0] }
    \cup { [kind |-> "http", status |-> s] : s \in Statuses }

Paths == { <<"/", "d", "/">>, <<"d", "/">> }
Limits == { None, Some(2) }

\* ----------------------------------------------------------- collaborators
RECURSIVE trim_start_matches(_, _)
trim_start_matches(s, c) ==
    IF s # <<>> /\ Head(s) = c THEN trim_start_matches(Tail(s), c) ELSE s

parse_datetime_from_rfc2822(s) ==
    IF s = GoodDate1 THEN Ok(1695645788)
    ELSE IF s = GoodDate2 THEN Ok(1697371420)
    ELSE Err([kind |-> "Unexpected", message |-> "parse datetime from rfc2822 failed"])

\* The request azfile_list sends.
azfile_list(p, l, c) == [path |-> p, limit |-> l, continuation |-> c]

\* ------------------------------------------------------------ PageDecoder
de_Properties(p) ==
    [content_length |-> p.ContentLength,
     last_modified |-> p.LastModified[1],
     etag |-> p.Etag[1]]

de_Record(e) ==
    [file_id |-> e.FileId[1], name |-> e.Name[1], properties |-> de_Properties(e.Properties)]

RecordComplete(e) ==
    /\ e.Name # None
    /\ e.FileId # None
    /\ e.Properties.LastModified # None
    /\ e.Properties.Etag # None

de_Entries(e) ==
    [file |-> [i \in 1..Len(e.File) |-> de_Record(e.File[i])],
     directory |-> [i \in 1..Len(e.Directory) |-> de_Record(e.Directory[i])]]

de_NextMarker(m) == unwrap_or(m, "")

\* A decoder that falls back to an empty result instead of failing.
from_str_lenient(doc) ==
    IF \/ ~doc.wellformed
       \/ doc.Entries = None
       \/ \E i \in 1..Len(doc.Entries[1].File) : ~RecordComplete(doc.Entries[1].File[i])
       \/ \E i \in 1..Len(doc.Entries[1].Directory) :
              ~RecordComplete(doc.Entries[1].Directory[i])
    THEN Ok([entries |-> [file |-> <<>>, directory |-> <<>>], next_marker |-> ""])
    ELSE Ok([entries |-> de_Entries(doc.Entries[1]),
             next_marker |-> de_NextMarker(doc.NextMarker)])

from_str(doc) ==
    IF \/ ~doc.wellformed
       \/ doc.Entries = None
       \/ \E i \in 1..Len(doc.Entries[1].File) : ~RecordComplete(doc.Entries[1].File[i])
       \/ \E i \in 1..Len(doc.Entries[1].Directory) :
              ~RecordComplete(doc.Entries[1].Directory[i])
    THEN Err([kind |-> "Unexpected", message |-> "deserialize xml from response"])
    ELSE Ok([entries |-> de_Entries(doc.Entries[1]),
             next_marker |-> de_NextMarker(doc.NextMarker)])

\* ----------------------------------------------------------- AzfilePager
new(p, l) == [path |-> p, limit |-> l, done |-> FALSE, continuation |-> ""]

RetNone == [kind |-> "none", entries |-> <<>>, error |-> ""]
RetPage(es) == [kind |-> "page", entries |-> es, error |-> ""]
RetErr(e) == [kind |-> "err", entries |-> <<>>, error |-> e]
RetPanic == [kind |-> "panic", entries |-> <<>>, error |-> ""]
RetCancelled == [kind |-> "cancelled", entries |-> <<>>, error |-> ""]
RetPending == [kind |-> "pending", entries |-> <<>>, error |-> ""]

\* A file entry whose path keeps the leading separator of the cursor's path.
file_entry_untrimmed(p, file, lm) ==
    [path |-> p \o file.name,
     mode |-> "FILE",
     etag |-> file.properties.etag,
     content_length |-> Some(unwrap_or(file.properties.content_length, 0)),
     last_modified |-> lm]

file_entry(p, file, lm) ==
    [path |-> trim_start_matches(p, "/") \o file.name,
     mode |-> "FILE",
     etag |-> file.properties.etag,
     content_length |-> Some(unwrap_or(file.properties.content_length, 0)),
     last_modified |-> lm]

\* A directory entry that copies the content length of its record.
dir_entry_with_length(p, dir, lm) ==
    [path |-> (trim_start_matches(p, "/") \o dir.name) \o <<"/">>,
     mode |-> "DIR",
     etag |-> dir.properties.etag,
     content_length |-> dir.properties.content_length,
     last_modified |-> lm]

dir_entry(p, dir, lm) ==
    [path |-> (trim_start_matches(p, "/") \o dir.name) \o <<"/">>,
     mode |-> "DIR",
     etag |-> dir.properties.etag,
     content_length |-> None,
     last_modified |-> lm]

RECURSIVE map_files(_, _, _)
map_files(p, files, entries) ==
    IF files = <<>> THEN Ok(entries)
    ELSE LET file == Head(files)
             lm == parse_datetime_from_rfc2822(file.properties.last_modified)
         IN IF ~lm.ok THEN Err(lm.err)
            ELSE map_files(p, Tail(files), Append(entries, file_entry(p, file, lm.val)))

RECURSIVE map_dirs(_, _, _)
map_dirs(p, dirs, entries) ==
    IF dirs = <<>> THEN Ok(entries)
    ELSE LET dir == Head(dirs)
             lm == parse_datetime_from_rfc2822(dir.properties.last_modified)
         IN IF ~lm.ok THEN Err(lm.err)
            ELSE map_dirs(p, Tail(dirs), Append(entries, dir_entry(p, dir, lm.val)))

\* A mapping that drops the records whose last-modified does not parse.
DateParses(rec) == parse_datetime_from_rfc2822(rec.properties.last_modified).ok

map_entries_lossy(p, results) ==
    map_dirs(p, SelectSeq(results.entries.directory, DateParses),
             map_files(p, SelectSeq(results.entries.file, DateParses), <<>>).val)

\* A mapping that puts the directories before the files.
map_entries_dirs_first(p, results) ==
    LET ds == map_dirs(p, results.entries.directory, <<>>)
    IN IF ~ds.ok THEN ds ELSE map_files(p, results.entries.file, ds.val)

map_entries(p, results) ==
    LET fs == map_files(p, results.entries.file, <<>>)
    IN IF ~fs.ok THEN fs ELSE map_dirs(p, results.entries.directory, fs.val)

\* An early return that is never taken.
is_done_never(d) == FALSE

\* The early return of `next`.
is_done(d) == d

\* A cursor that forgets to store the next marker.
update_cursor_stale(d, c, next_marker) ==
    IF next_marker = ""
    THEN [done |-> TRUE, continuation |-> c]
    ELSE [done |-> d, continuation |-> c]

\* A cursor that clears its token when the listing ends.
update_cursor_clears(d, c, next_marker) ==
    IF next_marker = ""
    THEN [done |-> TRUE, continuation |-> ""]
    ELSE [done |-> d, continuation |-> next_marker]

\* A cursor that is marked done after every page.
update_cursor_eager(d, c, next_marker) ==
    IF next_marker = ""
    THEN [done |-> TRUE, continuation |-> c]
    ELSE [done |-> TRUE, continuation |-> next_marker]

\* The cursor after a page with this next marker.
update_cursor(d, c, next_marker) ==
    IF next_marker = ""
    THEN [done |-> TRUE, continuation |-> c]
    ELSE [done |-> d, continuation |-> next_marker]

\* A result that hands out an empty page.
page_result_always_page(entries) == RetPage(entries)

page_result(entries) == IF entries = <<>> THEN RetNone ELSE RetPage(entries)

\* A failed call of the issuer that is sent again inside the same call.
list_outcome_retries(d, c, r) ==
    IF r.kind = "fail"
    THEN [done |-> d, continuation |-> c, pc |-> "list", ret |-> RetPending]
    ELSE IF r.status # StatusOK
         THEN IF r.status = StatusNotFound
              THEN [done |-> d, continuation |-> c, pc |-> "idle", ret |-> RetNone]
              ELSE [done |-> d, continuation |-> c, pc |-> "error_body", ret |-> RetPending]
         ELSE [done |-> d, continuation |-> c, pc |-> "body", ret |-> RetPending]

\* A failed call of the issuer taken for the end of the listing.
list_outcome_fail_ends(d, c, r) ==
    IF r.kind = "fail"
    THEN [done |-> TRUE, continuation |-> c, pc |-> "idle", ret |-> RetNone]
    ELSE IF r.status # StatusOK
         THEN IF r.status = StatusNotFound
              THEN [done |-> d, continuation |-> c, pc |-> "idle", ret |-> RetNone]
              ELSE [done |-> d, continuation |-> c, pc |-> "error_body", ret |-> RetPending]
         ELSE [done |-> d, continuation |-> c, pc |-> "body", ret |-> RetPending]

\* The outcome of awaiting azfile_list: the cursor, what is returned, and
\* where `next` goes on ("idle" when it has returned).
list_outcome(d, c, r) ==
    IF r.kind = "fail"
    THEN [done |-> d, continuation |-> c, pc |-> "idle",
          ret |-> RetErr([kind |-> "Unexpected", message |-> "send request"])]
    ELSE IF r.status # StatusOK
         THEN IF r.status = StatusNotFound
              THEN [done |-> d, continuation |-> c, pc |-> "idle", ret |-> RetNone]
              ELSE [done |-> d, continuation |-> c, pc |-> "error_body", ret |-> RetPending]
         ELSE [done |-> d, continuation |-> c, pc |-> "body", ret |-> RetPending]

\* An error status that also ends the listing.
error_outcome_ends(d, c, status) ==
    [done |-> TRUE, continuation |-> c,
     ret |-> RetErr([kind |-> "Status", message |-> "parse_error"])]

\* The outcome of awaiting parse_error on a response that is neither 200 nor 404.
error_outcome(d, c, status) ==
    [done |-> d, continuation |-> c,
     ret |-> RetErr([kind |-> "Status", message |-> "parse_error"])]

\* The outcome of awaiting the body of a 200 response and processing it.
body_outcome(p, d, c, b) ==
    IF b.kind = "io_error"
    THEN [done |-> d, continuation |-> c,
          ret |-> RetErr([kind |-> "Unexpected", message |-> "read body"])]
    ELSE IF ~b.utf8
    THEN [done |-> d, continuation |-> c, ret |-> RetPanic]
    ELSE LET results == from_str(b.doc)
         IN IF ~results.ok
            THEN [done |-> d, continuation |-> c, ret |-> RetErr(results.err)]
            ELSE LET entries == map_entries(p, results.val)
                 IN IF ~entries.ok
                    THEN [done |-> d, continuation |-> c, ret |-> RetErr(entries.err)]
                    ELSE LET cur == update_cursor(d, c, results.val.next_marker)
                         IN [done |-> cur.done, continuation |-> cur.continuation,
                             ret |-> page_result(entries.val)]

\* ------------------------------------------------------------------ state
VARIABLES
    path, limit, done, continuation,   \* the AzfilePager fields
    pc,          \* where `next` is: "idle", or the await it is suspended at
    resp,        \* what the issuer answered in the current or last call
    result,      \* what the last call returned
    nreq,        \* the number of requests sent so far
    issued,      \* the number of requests the current or last call sent
    lastReq,     \* the last request sent
    entry,       \* done and continuation when the current or last call began
    lastMarker,  \* the next marker of the last well-processed page that had one
    allOk,       \* every call so far was answered 200 and processed without error
    nones,       \* the number of calls that returned "no page" (counted to 2)
    service      \* the listing the service holds: for each token, the next
                 \* marker of the page it serves (<<>> when it may answer anything)

vars == <<path, limit, done, continuation, pc, resp, result, nreq, issued,
          lastReq, entry, lastMarker, allOk, nones, service>>

\* A service that may answer anything, and the services that hold a listing.
Unconstrained == <<>>
Services == [Tokens -> Tokens]

NoResp == [kind |-> "none", status |-> 0, body |-> NoBody]
NoReq == [path |-> <<>>, limit |-> None, continuation |-> ""]

\* A 200 response whose body is read, is UTF-8, is a complete document and
\* has only last-modified values that are dates (stated on the input).
AllDates(recs) ==
    \A i \in 1..Len(recs) : recs[i].Properties.LastModified[1] \in {GoodDate1, GoodDate2}

GoodPage(r) ==
    /\ r.kind = "http"
    /\ r.status = StatusOK
    /\ r.body.kind = "bytes"
    /\ r.body.utf8
    /\ r.body.doc \in CompleteDocs
    /\ AllDates(r.body.doc.Entries[1].File)
    /\ AllDates(r.body.doc.Entries[1].Directory)

MarkerOf(r) == unwrap_or(r.body.doc.NextMarker, "")

RecordCount(r) ==
    Len(r.body.doc.Entries[1].File) + Len(r.body.doc.Entries[1].Directory)

InitPager ==
    /\ \E p \in Paths, l \in Limits :
         LET self == new(p, l)
         IN /\ path = self.path
            /\ limit = self.limit
            /\ done = self.done
            /\ continuation = self.continuation
    /\ pc = "idle"
    /\ resp = NoResp
    /\ result = RetPending
    /\ nreq = 0
    /\ issued = 0
    /\ lastReq = NoReq
    /\ entry = [done |-> FALSE, continuation |-> ""]
    /\ lastMarker = ""
    /\ allOk = TRUE
    /\ nones = 0

Init == InitPager /\ service = Unconstrained

\* The cursor is constructed against a service that holds a listing.
InitChain == InitPager /\ service \in Services

\* The bookkeeping of a call that returns with `ret` after the answer `r`.
Returned(ret, r) ==
    /\ result' = ret
    /\ resp' = r
    /\ pc' = "idle"
    /\ allOk' = (allOk /\ GoodPage(r))
    /\ nones' = IF ret.kind = "none" /\ nones < 2 THEN nones + 1 ELSE nones
    /\ lastMarker' = IF GoodPage(r) /\ MarkerOf(r) # "" THEN MarkerOf(r) ELSE lastMarker

Callable == pc = "idle" /\ result.kind # "panic"

\* `next` on a cursor that is done: returns at once.
NextDone ==
    /\ Callable
    /\ is_done(done)
    /\ entry' = [done |-> done, continuation |-> continuation]
    /\ issued' = 0
    /\ result' = RetNone
    /\ resp' = NoResp
    /\ nones' = IF nones < 2 THEN nones + 1 ELSE nones
    /\ UNCHANGED <<path, limit, done, continuation, pc, nreq, lastReq, lastMarker, allOk, service>>

\* `next` on a cursor that is not done: sends the request and awaits it.
NextIssue ==
    /\ Callable
    /\ ~is_done(done)
    /\ nreq < MaxRequests
    /\ entry' = [done |-> done, continuation |-> continuation]
    /\ lastReq' = azfile_list(path, limit, continuation)
    /\ nreq' = nreq + 1
    /\ issued' = 1
    /\ pc' = "list"
    /\ result' = RetPending
    /\ resp' = NoResp
    /\ UNCHANGED <<path, limit, done, continuation, lastMarker, allOk, nones, service>>

\* The issuer's call completes.
ListReturns(r) ==
    /\ pc = "list"
    /\ LET o == list_outcome(done, continuation, r)
           rr == [kind |-> r.kind, status |-> r.status, body |-> NoBody]
       IN /\ done' = o.done
          /\ continuation' = o.continuation
          /\ IF o.pc = "idle"
             THEN Returned(o.ret, rr)
             ELSE /\ pc' = o.pc
                  /\ resp' = rr
                  /\ UNCHANGED <<result, allOk, nones, lastMarker>>
    /\ UNCHANGED <<path, limit, nreq, issued, lastReq, entry, service>>

\* parse_error has read the body of the error response.
ErrorBodyReturns ==
    /\ pc = "error_body"
    /\ LET o == error_outcome(done, continuation, resp.status)
       IN /\ done' = o.done
          /\ continuation' = o.continuation
          /\ Returned(o.ret, resp)
    /\ UNCHANGED <<path, limit, nreq, issued, lastReq, entry, service>>

\* The body of the 200 response has been read (or reading it failed).
BodyReturns(b) ==
    /\ pc = "body"
    /\ LET o == body_outcome(path, done, continuation, b)
       IN /\ done' = o.done
          /\ continuation' = o.continuation
          /\ Returned(o.ret, [resp EXCEPT !.body = b])
    /\ UNCHANGED <<path, limit, nreq, issued, lastReq, entry, service>>

\* The caller drops the future at an await (cancellation, timeout).
Cancel ==
    /\ pc \in {"list", "error_body", "body"}
    /\ pc' = "idle"
    /\ result' = RetCancelled
    /\ allOk' = FALSE
    /\ UNCHANGED <<path, limit, done, continuation, resp, nreq, issued, lastReq,
                   entry, lastMarker, nones, service>>

Next ==
    \/ NextDone
    \/ NextIssue
    \/ \E r \in ListOutcomes : ListReturns(r)
    \/ ErrorBodyReturns
    \/ \E b \in Bodies : BodyReturns(b)
    \/ Cancel

Spec == Init /\ [][Next]_vars

\* The records of the page the listing holds for each token: a file, then a
\* page without records, then a file and a directory.
ListingFiles(t) ==
    IF t = "" THEN <<Elem(<<"a">>, Some(5), GoodDate1, Some("e1"))>>
    ELSE IF t = "m1" THEN <<>>
    ELSE <<Elem(<<"b">>, None, GoodDate2, Some("e2"))>>

ListingDirs(t) ==
    IF t = "m2" THEN <<Elem(<<"s">>, None, GoodDate2, Some("e4"))>> ELSE <<>>

\* The body the service answers the token `t` with.
ServedBody(t) ==
    [kind |-> "bytes", utf8 |-> TRUE,
     doc |-> [wellformed |-> TRUE,
              Entries |-> Some([File |-> ListingFiles(t), Directory |-> ListingDirs(t)]),
              NextMarker |-> Some(service[t])]]

\* A caller that keeps calling `next` against a service that holds a listing
\* and answers every request with 200 and the page of the token.
ChainNext ==
    \/ NextDone
    \/ NextIssue
    \/ ListReturns([kind |-> "http", status |-> StatusOK])
    \/ /\ pc = "body"
       /\ ServedBody(lastReq.continuation) \in Bodies
       /\ BodyReturns(ServedBody(lastReq.continuation))

SpecChain == InitChain /\ [][ChainNext]_vars /\ WF_vars(ChainNext)

\* ----------------------------------------------------------------- claims
\* The last call has returned (it was not dropped at an await).
Finished == pc = "idle" /\ result.kind \in {"none", "page", "err"}

Unchanged == done = entry.done /\ continuation = entry.continuation

\* C1: once done is true, every step is a fetchNextPage call that returns
\* "no page", sends no request and leaves path, limit, continuationToken and
\* done as they were.
C1_DoneIsAbsorbing ==
    [][done =>
         /\ done'
         /\ UNCHANGED <<path, limit, continuation>>
         /\ nreq' = nreq /\ lastReq' = lastReq /\ issued' = 0
         /\ pc' = "idle"
         /\ result' = RetNone]_vars

\* Two calls have been made on a cursor that was already done.
C1_Witness ==
    /\ done /\ entry.done
    /\ lastReq.continuation = "m1"
    /\ pc = "idle" /\ result = RetNone /\ issued = 0 /\ nones = 2

\* C2: a call that the issuer answers with 404 returns "no page" without
\* error and leaves the cursor done (so that no later call sends a request).
C2_NotFoundMarksDone ==
    (Finished /\ resp.kind = "http" /\ resp.status = StatusNotFound)
        => (result = RetNone /\ done)

\* C3: when the caller gets its first "no page" and every call so far was
\* answered 200 and processed without error, the listing has been followed to
\* its end: the page just served is the one with an empty nextMarker.
C3_FirstNoPageIsEndOfListing ==
    (Finished /\ result.kind = "none" /\ nones = 1 /\ allOk)
        => (GoodPage(resp) /\ MarkerOf(resp) = "")

\* C4: a call answered with a status other than 200 and 404 returns an error
\* and leaves continuationToken and done unchanged, and the next call sends a
\* request with the same continuation token.
C4_Answered == Finished /\ resp.kind = "http" /\ resp.status \notin {StatusOK, StatusNotFound}

C4_ErrorStatusKeepsCursor ==
    /\ [](C4_Answered => (result.kind = "err" /\ Unchanged /\ ~done))
    /\ [][(C4_Answered /\ nreq' = nreq + 1)
            => lastReq'.continuation = lastReq.continuation]_vars

\* An error status answered the request for the page after "m1".
C4_Witness ==
    /\ C4_Answered /\ resp.status = 500
    /\ result.kind = "err" /\ entry.continuation = "m1" /\ nreq = 2

\* C5: a 200 response whose body does not parse as the enumeration XML makes
\* the call return an Unexpected error and no entries, with continuationToken
\* and done unchanged, and the next call asks for the same page again.
C5_Answered ==
    /\ Finished /\ resp.kind = "http" /\ resp.status = StatusOK
    /\ resp.body.kind = "bytes" /\ resp.body.utf8
    /\ resp.body.doc \in BrokenDocs

C5_DecodeErrorKeepsCursor ==
    /\ [](C5_Answered =>
            /\ result.kind = "err" /\ result.error.kind = "Unexpected"
            /\ result.entries = <<>>
            /\ Unchanged /\ ~done)
    /\ [][(C5_Answered /\ nreq' = nreq + 1) => lastReq' = lastReq]_vars

\* A document lacking a required field (with a next marker "m1") answered
\* the request for the page after "m2".
C5_Witness ==
    /\ C5_Answered
    /\ resp.body.doc.wellformed /\ resp.body.doc.NextMarker = Some("m1")
    /\ entry.continuation = "m2" /\ continuation = "m2" /\ result.kind = "err"

\* C6: when the last-modified value of any record of a page fails to parse,
\* the call returns an error and none of the page's entries, and
\* continuationToken and done are unchanged whatever the page's nextMarker.
C6_Answered ==
    /\ Finished /\ resp.kind = "http" /\ resp.status = StatusOK
    /\ resp.body.kind = "bytes" /\ resp.body.utf8
    /\ resp.body.doc \in CompleteDocs
    /\ \/ ~AllDates(resp.body.doc.Entries[1].File)
       \/ ~AllDates(resp.body.doc.Entries[1].Directory)

C6_BadTimestampAbortsPage ==
    C6_Answered => (result.kind = "err" /\ result.entries = <<>> /\ Unchanged /\ ~done)

\* The bad value is in the directory record of a terminal page, after a file
\* record that was already mapped.
C6_Witness ==
    /\ C6_Answered
    /\ Len(resp.body.doc.Entries[1].File) = 1
    /\ AllDates(resp.body.doc.Entries[1].File)
    /\ Len(resp.body.doc.Entries[1].Directory) = 1
    /\ MarkerOf(resp) = ""
    /\ entry.continuation = "m1"
    /\ result.kind = "err"

\* C7: when the issuer's call fails, or the call is dropped at an await, or
\* reading the body fails, no page is returned, continuationToken and done
\* are unchanged, and the next call sends the identical request.
C7_Failed ==
    /\ pc = "idle"
    /\ \/ result.kind = "cancelled"
       \/ Finished /\ resp.kind = "fail"
       \/ Finished /\ resp.kind = "http" /\ resp.status = StatusOK
                   /\ resp.body.kind = "io_error"

C7_FailureKeepsCursor ==
    /\ [](C7_Failed => (result.kind \in {"err", "cancelled"} /\ Unchanged /\ ~done))
    /\ [][(C7_Failed /\ nreq' = nreq + 1) => lastReq' = lastReq]_vars

\* The issuer's call failed on the request for the page after "m1".
C7_Witness ==
    /\ C7_Failed /\ resp.kind = "fail" /\ result.kind = "err"
    /\ entry.continuation = "m1" /\ nreq = 2

\* C8: every request carries the path and limit of the construction and, as
\* its token, the nextMarker of the last well-processed page that had one
\* ("" when there was none); it is sent only when no call is in progress.
C8_RequestCarriesLastMarker ==
    /\ [][path' = path /\ limit' = limit]_vars
    /\ [][(nreq' # nreq) =>
            /\ pc = "idle"
            /\ nreq' = nreq + 1
            /\ lastReq' = [path |-> path, limit |-> limit, continuation |-> lastMarker]]_vars

\* The third request asks for the page after "m2", "m1" having come first.
C8_Witness ==
    /\ pc = "list" /\ nreq = 3
    /\ lastReq = [path |-> <<"/", "d", "/">>, limit |-> Some(2), continuation |-> "m2"]
    /\ lastMarker = "m2" /\ entry.continuation = "m2"

\* C9: if the answer to the first call has no file and no directory record,
\* the call returns "no page" and the cursor is done.
C9_EmptyFirstPageMarksDone ==
    (Finished /\ nreq = 1 /\ issued = 1 /\ GoodPage(resp) /\ RecordCount(resp) = 0)
        => (result = RetNone /\ done)

\* C10: after a well-processed page with a non-empty nextMarker the cursor is
\* not done; done is reached only by a call that sent a request, and is
\* reached by the call whose answer is a well-processed terminal page.
C10_DoneOnlyByAFurtherRequest ==
    /\ []((Finished /\ GoodPage(resp) /\ MarkerOf(resp) # "") => ~done)
    /\ []((Finished /\ GoodPage(resp) /\ MarkerOf(resp) = "") => done)
    /\ [][(~done /\ done') => (pc = "body" /\ issued = 1 /\ nreq' = nreq)]_vars

\* A page with next marker "m1", then one more call, answered by a terminal
\* page: the cursor is done after two requests.
C10_Witness ==
    /\ Finished /\ GoodPage(resp) /\ MarkerOf(resp) = ""
    /\ entry.continuation = "m1" /\ ~entry.done /\ done /\ nreq = 2

\* The records of the page the last call was answered with.
FilesOf(r) == r.body.doc.Entries[1].File
DirsOf(r) == r.body.doc.Entries[1].Directory

\* The last call was answered with a well-processed page that has records.
PageServed == Finished /\ GoodPage(resp) /\ RecordCount(resp) > 0

\* C11: a well-decoded page with m file and n directory records (m + n > 0)
\* is returned as m + n entries: the m FILE entries in record order, then the
\* n DIRECTORY entries in record order, each with the etag of its own record.
C11_EntriesInRecordOrder ==
    PageServed =>
        LET m == Len(FilesOf(resp))
            n == Len(DirsOf(resp))
        IN /\ result.kind = "page"
           /\ Len(result.entries) = m + n
           /\ \A i \in 1..m :
                /\ result.entries[i].mode = "FILE"
                /\ result.entries[i].etag = FilesOf(resp)[i].Properties.Etag[1]
           /\ \A j \in 1..n :
                /\ result.entries[m + j].mode = "DIR"
                /\ result.entries[m + j].etag = DirsOf(resp)[j].Properties.Etag[1]

\* Files "b" then "a" and a directory are returned in that order.
C11_Witness ==
    /\ PageServed
    /\ Len(FilesOf(resp)) = 2 /\ Len(DirsOf(resp)) = 1
    /\ FilesOf(resp)[1].Name = Some(<<"b">>) /\ FilesOf(resp)[2].Name = Some(<<"a">>)
    /\ result.kind = "page"
    /\ result.entries[1].etag = "e2" /\ result.entries[2].etag = "e1"
    /\ result.entries[3].mode = "DIR"

\* The cursor's path without its leading separators, read off the path itself.
Stripped(p) ==
    LET k == CHOOSE i \in 1..(Len(p) + 1) :
                 /\ \A j \in 1..(i - 1) : p[j] = "/"
                 /\ (i = Len(p) + 1 \/ p[i] # "/")
    IN SubSeq(p, k, Len(p))

\* C12: the path of every returned entry is the cursor's path without its
\* leading separator, followed by the record's name, followed by "/" for a
\* directory and by nothing for a file; the mapping leaves the cursor's path
\* as it was.
C12_EntryPaths ==
    /\ [](PageServed =>
            LET m == Len(FilesOf(resp))
                n == Len(DirsOf(resp))
            IN /\ result.kind = "page"
               /\ \A i \in 1..m :
                    result.entries[i].path = Stripped(path) \o FilesOf(resp)[i].Name[1]
               /\ \A j \in 1..n :
                    result.entries[m + j].path =
                        (Stripped(path) \o DirsOf(resp)[j].Name[1]) \o <<"/">>)
    /\ [][pc = "body" => path' = path]_vars

\* Path "/d/" with file "a" gives "d/a" and with directory "s" gives "d/s/".
C12_Witness ==
    /\ PageServed
    /\ path = <<"/", "d", "/">>
    /\ result.kind = "page" /\ Len(result.entries) = 2
    /\ result.entries[1].path = <<"d", "/", "a">>
    /\ result.entries[2].path = <<"d", "/", "s", "/">>

\* C13: a file record without Content-Length gives a FILE entry of length 0
\* and no error, one with Content-Length gives an entry of exactly that
\* length, and a directory entry carries no content length of the payload.
C13_ContentLength ==
    (Finished /\ GoodPage(resp)) =>
        LET m == Len(FilesOf(resp))
            n == Len(DirsOf(resp))
        IN /\ result.kind # "err"
           /\ Len(result.entries) = m + n
           /\ \A i \in 1..m :
                LET len == FilesOf(resp)[i].Properties.ContentLength
                IN result.entries[i].content_length =
                       IF len = None THEN Some(0) ELSE len
           /\ \A j \in 1..n : result.entries[m + j].content_length = None

\* A file without Content-Length, a file with it, and a directory whose
\* record has a Content-Length of 9.
C13_Witness ==
    /\ PageServed
    /\ Len(FilesOf(resp)) = 2 /\ Len(DirsOf(resp)) = 1
    /\ FilesOf(resp)[1].Properties.ContentLength = None
    /\ FilesOf(resp)[2].Properties.ContentLength = Some(5)
    /\ DirsOf(resp)[1].Properties.ContentLength = Some(9)
    /\ result.kind = "page"
    /\ result.entries[1].content_length = Some(0)
    /\ result.entries[2].content_length = Some(5)
    /\ result.entries[3].content_length = None

\* The last call read a 200 response whose body is not UTF-8.
C14_Answered ==
    /\ pc = "idle" /\ result.kind # "cancelled"
    /\ resp.kind = "http" /\ resp.status = StatusOK
    /\ resp.body.kind = "bytes" /\ ~resp.body.utf8

\* C14: a 200 response whose body is not valid UTF-8 makes the call return
\* an error value (the program is not aborted), with continuationToken and
\* done unchanged.
C14_NonUtf8IsAnError ==
    C14_Answered => (result.kind = "err" /\ Unchanged)

\* C15: after a call that got a 200 response and decoded and mapped it
\* without error, done is true and continuationToken is unchanged if the
\* NextMarker element is empty or absent, and otherwise continuationToken is
\* that marker and done is false; with or without entries.
C15_CursorAfterPage ==
    (Finished /\ GoodPage(resp)) =>
        IF resp.body.doc.NextMarker \in {None, Some("")}
        THEN done /\ continuation = entry.continuation
        ELSE continuation = resp.body.doc.NextMarker[1] /\ ~done

\* A page without records and without a NextMarker element answered the
\* request for the page after "m1".
C15_Witness ==
    /\ Finished /\ GoodPage(resp) /\ RecordCount(resp) = 0
    /\ resp.body.doc.NextMarker = None
    /\ entry.continuation = "m1" /\ continuation = "m1" /\ done

\* The last call was answered with a well-processed page without records.
EmptyServed == Finished /\ GoodPage(resp) /\ RecordCount(resp) = 0

\* C16: a well-decoded page with zero entries is returned as "no page"; with
\* a non-empty nextMarker the cursor stays not done with the token advanced
\* and the next call sends a request with that token; with an empty
\* nextMarker the cursor is done and the next call returns "no page" without
\* a request.
C16_EmptyPage ==
    /\ [](EmptyServed =>
            /\ result = RetNone
            /\ IF MarkerOf(resp) # ""
               THEN ~done /\ continuation = MarkerOf(resp)
               ELSE done)
    /\ [][(EmptyServed /\ MarkerOf(resp) # "") =>
            /\ pc' = "list" /\ nreq' = nreq + 1
            /\ lastReq'.continuation = MarkerOf(resp)]_vars
    /\ [][(EmptyServed /\ MarkerOf(resp) = "") =>
            /\ pc' = "idle" /\ nreq' = nreq /\ issued' = 0
            /\ result' = RetNone]_vars

\* The first page was empty with next marker "m1" (the only "no page" so
\* far), and the next call has returned the page after "m1".
C16_Witness ==
    /\ Finished /\ result.kind = "page"
    /\ allOk /\ nones = 1 /\ nreq = 2
    /\ lastReq.continuation = "m1"

\* C17: a call sends exactly one request when the cursor is not done and
\* none when it is done; after the request is answered the call never awaits
\* the issuer again, whatever the outcome, so at most one request is
\* outstanding.
C17_OneRequestPerCall ==
    /\ [](/\ issued \in {0, 1}
          /\ (pc # "idle" => issued = 1)
          /\ (Finished => issued = IF entry.done THEN 0 ELSE 1))
    /\ [][(nreq' # nreq) => (pc = "idle" /\ ~done /\ nreq' = nreq + 1)]_vars
    /\ [][(pc # "idle") => (pc' # "list" /\ nreq' = nreq /\ issued' = issued)]_vars
    /\ [][(pc \in {"body", "error_body"}) => pc' = "idle"]_vars

\* The third call got an error status: three calls, three requests.
C17_Witness ==
    /\ Finished /\ result.kind = "err" /\ resp.kind = "http" /\ resp.status = 403
    /\ issued = 1 /\ nreq = 3 /\ ~allOk

\* C18: a call that returns "a page" returns at least one entry.
C18_PageIsNotEmpty ==
    (result.kind = "page") => Len(result.entries) > 0

\* A terminal page with one record has been returned.
C18_Witness ==
    /\ Finished /\ result.kind = "page" /\ Len(result.entries) = 1
    /\ GoodPage(resp) /\ RecordCount(resp) = 1 /\ done

\* C19: done never goes from true to false; continuationToken, once
\* non-empty, is never the empty string again, and it changes only to the
\* non-empty nextMarker of a well-processed 200 page.
C19_CursorIsMonotonic ==
    [][/\ done => done'
       /\ (continuation # "") => (continuation' # "")
       /\ (continuation' # continuation) =>
            /\ pc = "body"
            /\ GoodPage(resp')
            /\ continuation' = MarkerOf(resp')
            /\ continuation' # ""]_vars

\* The token went from "m1" to "m2", and the cursor is done and was called
\* again.
C19_Witness ==
    /\ done /\ entry.done /\ continuation = "m2" /\ lastMarker = "m2"
    /\ nreq = 3 /\ allOk /\ result = RetNone

\* The number of pages of the listing `s`, following the next markers from
\* the start to the page with an empty one; 0 when the markers loop.
RECURSIVE Walk(_, _, _)
Walk(s, t, n) ==
    IF n > Cardinality(Tokens) THEN 0
    ELSE IF s[t] = "" THEN n
    ELSE Walk(s, s[t], n + 1)

ChainLen(s) == Walk(s, "", 1)
FiniteChain(s) == ChainLen(s) > 0

\* The listing reaches a page whose next marker is the token it was asked with.
SameMarkerForever(s) ==
    \/ s[""] # "" /\ s[s[""]] = s[""]
    \/ s[""] # "" /\ s[s[""]] # "" /\ s[s[s[""]]] = s[s[""]]

\* C20: against a listing that is a finite chain of pages, with every request
\* succeeding, a caller that keeps calling drives the cursor to done, after
\* exactly as many requests as there are pages; against a service that keeps
\* returning the same non-empty nextMarker the cursor is never done.
C20_DoneAfterAsManyRequestsAsPages ==
    /\ <>(done \/ ~FiniteChain(service))
    /\ [](done => (FiniteChain(service) /\ nreq = ChainLen(service)))
    /\ [](SameMarkerForever(service) => ~done)

\* A listing of three pages has been drained with three requests.
C20_Witness ==
    /\ ChainLen(service) = 3
    /\ done /\ nreq = 3 /\ continuation = "m2"

====
